---- MODULE Spec2Model ----
(***************************************************************************)
(* Interception and self-healing layer of selenium_interceptor.py.         *)
(*                                                                         *)
(* One caller invocation (driver.find_element, driver.find_elements or a   *)
(* patched WebElement method) runs as a stack of wrapper frames: the       *)
(* wrappers are installed on the driver object and on the WebElement       *)
(* class, so every call the handlers make through those objects goes       *)
(* through a wrapper again and is a new frame.  The driver, the healer and *)
(* the page are the environment: each of their calls picks one of its      *)
(* possible results.                                                       *)
(***************************************************************************)
EXTENDS Integers, Sequences, FiniteSets, TLC

\* ---------------------------------------------------------------- bounds
MaxDepth == 3        \* nesting of wrapper frames the interpreter allows
MaxHandle == 2       \* element identities the driver hands out

\* ------------------------------------------------------------ value sets
Handles == 1..MaxHandle
NoHandle == 0

Loc(t, v) == [type |-> t, value |-> v]
NoLoc == Loc("", "")
CallerLocs == {Loc("id", "submit"), Loc("xpath", "//button[1]")}
NewXPaths == {"//button[1]"}
ByXPATH == "xpath"

Results == {"r1", "r2"}
NoSuchElementException == "NoSuchElementException"
StaleElementReferenceException == "StaleElementReferenceException"
WebDriverException == "WebDriverException"
RecursionError == "RecursionError"
PageSourceError == "PageSourceError"
HealerError == "HealerError"
RecorderError == "RecorderError"
DriverErrors == {NoSuchElementException, StaleElementReferenceException,
                 WebDriverException}

\* An exception object: its class and the number of the failure that
\* created it within the invocation (1 = the caller's original driver call).
Exc(c, n) == [cls |-> c, src |-> n]
NoExc == Exc("", 0)

\* A returned value: a handle, an action result or a list of handles.
Val(h, r, l) == [h |-> h, res |-> r, els |-> l]
NoVal == Val(NoHandle, "", <<>>)

Returned(v) == [kind |-> "value", val |-> v, exc |-> NoExc]
Raised(e) == [kind |-> "exc", val |-> NoVal, exc |-> e]
NoRet == [kind |-> "none", val |-> NoVal, exc |-> NoExc]

\* What healer.heal can hand back: None, a result with success False, a
\* result with success True and a new_xpath, or an exception.
HealNone == [kind |-> "None", success |-> FALSE, new_xpath |-> ""]
HealDeclined == [kind |-> "result", success |-> FALSE, new_xpath |-> ""]
HealFound(x) == [kind |-> "result", success |-> TRUE, new_xpath |-> x]
HealRaises == [kind |-> "raise", success |-> FALSE, new_xpath |-> ""]
HealOutcomes == {HealNone, HealDeclined, HealRaises}
                    \cup {HealFound(x) : x \in NewXPaths}

action_methods == {"click", "send_keys"}
\* The positional and keyword arguments the caller passes to each method.
ArgSets == [click |-> {"()"}, send_keys |-> {"('a',)", "('b',)"}]

VARIABLES
    stack,          \* wrapper frames of the running invocation, innermost last
    ret,            \* value or exception handed from a finished frame
    call,           \* the caller's invocation: what was called with what
    registry,       \* monitor's element info: id(element) -> locator
    auto_heal,      \* monitor.auto_heal
    current_driver, \* what monitor.get_current_driver() returns
    events,         \* monitor.record_* notifications of the invocation
    heals,          \* locators passed to healer.heal in the invocation
    page_reads,     \* reads of driver.page_source in the invocation
    finds,          \* executions of the unpatched driver.find_element
    reresolves,     \* calls of driver.find_element made by a healing step
    acts,           \* executions of the unpatched WebElement method
    nexc,           \* exceptions created so far in the invocation
    trace,          \* every call to monitor, driver and healer, in program order
    element,        \* WebElementData capture: what each read of the element gives
    include_attributes, \* from_selenium_element(include_attributes=...)
    custom_attributes,  \* from_selenium_element(custom_attributes=...)
    data_module,    \* which WebElementData: Property.py or healing.py
    instance,       \* what from_selenium_element returned or raised
    secret_key,     \* SecurePickle.secret_key
    algorithm,      \* the algorithm SecurePickle was constructed with
    sent,           \* the last object serialized, and under which key
    wire,           \* serialized data on its way to loads / from_json_safe
    imported,       \* the instance was rebuilt by import_key(export_key())
    loaded,         \* what loads / from_json_safe returned or raised
    environ,        \* os.environ
    parser,         \* options of the [driver] section of config.ini, in file order
    overwrite_env,  \* IniConfigHandler.overwrite_env
    original_env_var,   \* IniConfigHandler.original_env_var
    injected_env_var,   \* IniConfigHandler.injected_env_var
    env_calls,      \* update_env and cleanup_env calls made so far
    env_before,     \* os.environ before the handler and before its last call
    find_element_attr,  \* driver.find_element of each driver: original or wrapper
    original_methods,   \* SeleniumInterceptor.original_methods['find_element']
    webelement_click,   \* wrappers around WebElement.click, outermost counted last
    patches,        \* patch_driver calls made so far
    pcall,          \* the running call on a patched driver or element
    plog,           \* what that call did: attempts recorded, originals executed
    instances,      \* BuildLogger._instance: str(kwargs) -> BuildLogger
    lock,           \* BuildLogger._lock: the thread holding it
    threads,        \* each thread's call of get_default_logger
    handlers,       \* logging's loggers: name -> handlers attached, in order
    built           \* every BuildLogger constructed so far, in order

\* State of WebElementData captures.
capture_vars == <<element, include_attributes, custom_attributes, data_module, instance>>

\* State of a SecurePickle instance and its data.
pickle_vars == <<secret_key, algorithm, sent, wire, imported, loaded>>

\* State of an IniConfigHandler and the process environment.
config_vars == <<environ, parser, overwrite_env, original_env_var, injected_env_var,
                 env_calls, env_before>>

\* What patch_driver installs, and a call through it.
patch_vars == <<find_element_attr, original_methods, webelement_click, patches,
                pcall, plog>>

\* BuildLogger's class state, logging's loggers and the calling threads.
logger_vars == <<instances, lock, threads, handlers, built>>

\* State of the libraries, untouched by the interception layer.
lib_vars == <<capture_vars, pickle_vars, config_vars, patch_vars, logger_vars>>

\* State of the interception layer.
core_vars == <<stack, ret, call, registry, auto_heal, current_driver, events,
               heals, page_reads, finds, reresolves, acts, nexc, trace>>

\* What each library leaves alone.
outside_capture == <<core_vars, pickle_vars, config_vars, patch_vars, logger_vars>>
outside_pickle == <<core_vars, capture_vars, config_vars, patch_vars, logger_vars>>
outside_config == <<core_vars, capture_vars, pickle_vars, patch_vars, logger_vars>>
outside_patch == <<core_vars, capture_vars, pickle_vars, config_vars, logger_vars>>
outside_logger == <<core_vars, capture_vars, pickle_vars, config_vars, patch_vars>>

vars == <<stack, ret, call, registry, auto_heal, current_driver, events,
          heals, page_reads, finds, reresolves, acts, nexc, trace, lib_vars>>

\* ----------------------------------------------------------------- frames
Frame(fn, pc, loc, h, m, a) ==
    [fn |-> fn, pc |-> pc, loc |-> loc, h |-> h, method |-> m, args |-> a,
     exc |-> NoExc, new_xpath |-> "", newh |-> NoHandle]

NoCall == [fn |-> "", loc |-> NoLoc, h |-> NoHandle, method |-> "", args |-> "",
           info |-> NoLoc]

Top == stack[Len(stack)]
Front(s) == SubSeq(s, 1, Len(s) - 1)
SetTop(f) == [stack EXCEPT ![Len(stack)] = f]
Running == stack # <<>>
Idle == stack = <<>>
Done == Idle /\ ret.kind # "none"

\* Handles some frame of the running invocation still refers to: a new
\* element object cannot have the identity of one that is still alive.
Live == {stack[i].h : i \in 1..Len(stack)} \cup {stack[i].newh : i \in 1..Len(stack)}

\* ------------------------------------------------------------ environment
\* Results of the unpatched driver.find_element: a new element or an error.
LookupOutcomes ==
    {[ok |-> TRUE, h |-> h, cls |-> ""] : h \in Handles \ Live}
        \cup {[ok |-> FALSE, h |-> NoHandle, cls |-> c] : c \in DriverErrors}

\* Results of the unpatched driver.find_elements: a list or an error.
LookupManyOutcomes ==
    {[ok |-> TRUE, els |-> l, cls |-> ""] : l \in {<<>>} \cup {<<h>> : h \in Handles}}
        \cup {[ok |-> FALSE, els |-> <<>>, cls |-> c] : c \in DriverErrors}

\* Results of the unpatched WebElement method: a result or an error.
ActionOutcomes ==
    {[ok |-> TRUE, res |-> r, cls |-> ""] : r \in Results}
        \cup {[ok |-> FALSE, res |-> "", cls |-> c] : c \in DriverErrors}

\* One entry of the log of unpatched find_element executions.
Found(fn, loc, o) == [fn |-> fn, loc |-> loc, ok |-> o.ok, cls |-> o.cls, h |-> o.h]

\* ----------------------------------------------------------------- monitor
Ev(name, fn) == <<name, fn>>

\* monitor.record_find_success(method, (by, value), {}, result): the monitor
\* files the element under its identity with the locator that found it.
record_find_success(reg, fn, loc, h) ==
    IF fn = "find_element" THEN [reg EXCEPT ![h] = loc] ELSE reg

\* monitor.get_element_info(id(element)): the entry, or nothing.
get_element_info(h) == registry[h]

\* ------------------------------------------------- decisions of the handlers
\* Variant: the lookup handler catches every driver error.
FindHealable_AnyDriverError(cls) == cls \in DriverErrors

\* except (NoSuchElementException, StaleElementReferenceException)
FindHealable(cls) ==
    cls \in {NoSuchElementException, StaleElementReferenceException}

\* Variant: the plural handler catches not-found only.
FindElementsCaught_NotFoundOnly(cls) == cls = NoSuchElementException

\* except (NoSuchElementException, StaleElementReferenceException), plural
FindElementsCaught(cls) ==
    cls \in {NoSuchElementException, StaleElementReferenceException}

\* Variant: the plural handler heals like the single one when auto_heal is on.
FindElementsHeals_OnAutoHeal(ah) == ah

\* find_elements: "return the empty list rather than heal"; with auto_heal
\* the handler only records a healing attempt.
FindElementsHeals(ah) == FALSE

\* except StaleElementReferenceException
ActionHealable(cls) == cls = StaleElementReferenceException

\* Variant: healing is attempted whatever the flag says.
HealingEnabled_Always(ah) == TRUE

\* `if self.monitor.auto_heal:` in front of _attempt_healing and of
\* _attempt_element_recovery.
HealingEnabled(ah) == ah

\* Variant: recovery goes on without an entry.
RecoveryPossible_NoCheck(info) == TRUE

\* if not element_info: return None
RecoveryPossible(info) == info # NoLoc

\* Variant: any healing result is taken, its success flag unread.
HealingAccepted_IgnoresSuccess(hr) == hr.kind = "result"

\* if healing_result and healing_result.success
HealingAccepted(hr) == hr.kind = "result" /\ hr.success

\* locator = {'type': by, 'value': value}  /  element_info['locator']
HealLocator(f) == f.loc

\* driver.find_element(By.XPATH, healing_result.new_xpath)
ReResolveLoc(x) == Loc(ByXPATH, x)

\* Variant: the replay is made without the caller's arguments.
ReplayFrame_OtherArgs(f) == Frame("action", "try", NoLoc, f.newh, f.method, "")

\* getattr(healed_element, method_name)(*args, **kwargs)
ReplayFrame(f) == Frame("action", "try", NoLoc, f.newh, f.method, f.args)

\* driver.find_element of the driver the monitor returns: the wrapper that
\* patch_driver installed on the driver object, or the driver's own method
\* when the monitor holds a driver that was not patched.
ReResolveIsWrapped(d) == d = "patched"

\* Variant: the attempt is reported after the driver lookup.
FindTryCalls_LookupFirst(ok, caught) ==
    <<"original.find_element", "monitor.record_find_attempt">>
        \o (IF ok THEN <<"monitor.record_find_success">>
            ELSE IF caught THEN <<"monitor.record_find_failure">>
            ELSE <<>>)

\* The calls of _find_element_handler's try block and except clause, in
\* the order the statements make them.
FindTryCalls(ok, caught) ==
    <<"monitor.record_find_attempt", "original.find_element">>
        \o (IF ok THEN <<"monitor.record_find_success">>
            ELSE IF caught THEN <<"monitor.record_find_failure">>
            ELSE <<>>)

\* The calls of _find_elements_handler.
FindManyCalls(ok, caught, ah) ==
    <<"monitor.record_find_attempt", "original.find_elements">>
        \o (IF ok THEN <<"monitor.record_find_success">>
            ELSE IF caught
                 THEN <<"monitor.record_find_failure">>
                        \o (IF ah THEN <<"monitor.record_healing_attempt">> ELSE <<>>)
            ELSE <<>>)

\* The calls of the action wrapper's try block and except clause.
ActionTryCalls(ok, caught, ah) ==
    <<"monitor.record_action_attempt", "original.method">>
        \o (IF ok THEN <<"monitor.record_action_success">>
            ELSE IF caught
                 THEN <<"monitor.record_stale_element">>
                        \o (IF ah THEN <<"monitor.get_element_info">> ELSE <<>>)
            ELSE <<>>)

\* driver.find_element(By.XPATH, ...) of a healing step: the wrapper, or the
\* driver's own lookup.
ReResolveCalls(wrapped) ==
    <<"driver.find_element">>
        \o (IF wrapped THEN <<>> ELSE <<"original.find_element">>)

\* record_healing_success after the lookup returned, record_healing_failure
\* in the except clause.
HealResolvedCall(found) ==
    IF found THEN "monitor.record_healing_success"
             ELSE "monitor.record_healing_failure"

\* Variant: the wrapper forgets the driver's result.
TryReturn_Nothing(v) == Returned(NoVal)

\* return result, at the end of a try block
TryReturn(v) == Returned(v)

\* ------------------------------------------------------------------- steps
Pop(r) == /\ stack' = Front(stack)
          /\ ret' = r

\* No capture has been asked for.
\* ------------------------------------------------------ element snapshots
\* At most this many reads of one element deviate from returning a
\* non-empty string.
MaxFaults == 2

\* Python values of the snapshot fields.  A string is the sequence of its
\* words and blanks, so that split() has something to do.
Str(ws) == [t |-> "str", s |-> ws]
List(xs) == [t |-> "list", s |-> xs]
Dict(kvs) == [t |-> "dict", s |-> kvs]
None == [t |-> "None", s |-> <<>>]
Truthy(v) == v.t # "None" /\ v.s # <<>>

\* The reads from_selenium_element makes on the handle, in program order.
ReadOrder == <<"class", "xpath", "tag_name", "id", "text", "href", "src",
               "name", "value", "custom", "all_attrs">>
ReadNames == {ReadOrder[i] : i \in DOMAIN ReadOrder}
AttributeReads == {"class", "id", "href", "src", "name", "value", "custom"}

\* What a read can do: return a non-empty string, return an empty one,
\* return None (get_attribute on an absent attribute, a script without a
\* result), or raise.  tag_name is never empty; tag_name, text and the
\* attribute-collecting script never give None.
ReadOutcomes(r) ==
    {"str", "raises"}
        \cup (IF r # "tag_name" THEN {"empty"} ELSE {})
        \cup (IF r \in AttributeReads \cup {"xpath"} THEN {"none"} ELSE {})

Sample(r) ==
    CASE r = "class" -> Str(<<"btn", " ", "primary">>)
      [] r = "xpath" -> Str(<<"//*[@id='submit']">>)
      [] r = "tag_name" -> Str(<<"button">>)
      [] r = "id" -> Str(<<"submit">>)
      [] r = "text" -> Str(<<"Send">>)
      [] r = "href" -> Str(<<"/go">>)
      [] r = "src" -> Str(<<"/b.png">>)
      [] r = "name" -> Str(<<"send">>)
      [] r = "value" -> Str(<<"1">>)
      [] r = "custom" -> Str(<<"7">>)
      [] r = "all_attrs" -> Dict(<<<<"type", "submit">>>>)

\* The value a read that does not raise returns.
ReadValue(e, r) ==
    CASE e[r] = "str" -> Sample(r)
      [] e[r] = "empty" -> IF r = "all_attrs" THEN Dict(<<>>) ELSE Str(<<>>)
      [] OTHER -> None

FaultSets == {F \in SUBSET ReadNames : Cardinality(F) <= MaxFaults}
Elements ==
    UNION {{[r \in ReadNames |-> IF r \in F THEN g[r] ELSE "str"] :
               g \in {x \in [F -> {"empty", "none", "raises"}] :
                         \A r \in F : x[r] \in ReadOutcomes(r)}} :
           F \in FaultSets}

CustomAttributeLists == {<<>>, <<"data-x">>}
DataModules == {"Property", "healing"}

RECURSIVE split(_)
\* str.split(): the words of the string, blanks dropped.
split(ws) ==
    IF ws = <<>> THEN <<>>
    ELSE IF Head(ws) = " " THEN split(Tail(ws))
    ELSE <<Head(ws)>> \o split(Tail(ws))

\* _get_absolute_xpath without its fallbacks: whatever the script gave.
get_absolute_xpath_NoFallback(e) == ReadValue(e, "xpath")

\* _get_absolute_xpath: the script's result, "" when it has none or raises.
get_absolute_xpath(e) ==
    IF e["xpath"] = "raises" THEN Str(<<>>)
    ELSE IF Truthy(ReadValue(e, "xpath")) THEN ReadValue(e, "xpath")
    ELSE Str(<<>>)

\* WebElementData.__init__: classes and attributes fall back to their empty
\* containers, the other arguments are stored as given.  healing.py's class
\* has no xpath.
WebElementData(m, tag, element_id, classes, text, href, src, name, value, xpath, attributes) ==
    LET fields == [tag |-> tag, element_id |-> element_id,
                   classes |-> IF Truthy(classes) THEN classes ELSE List(<<>>),
                   text |-> text, href |-> href, src |-> src, name |-> name,
                   value |-> value,
                   attributes |-> IF Truthy(attributes) THEN attributes
                                  ELSE Dict(<<>>)]
    IN  IF m = "Property" THEN fields @@ [xpath |-> xpath] ELSE fields

\* The reads one call makes: Property.py computes the xpath, healing.py
\* does not; the attribute part reads the custom attributes when given,
\* else runs the collecting script when include_attributes.
ReadsMade(m, inc, cust) ==
    (ReadNames \ {"xpath", "custom", "all_attrs"})
        \cup (IF m = "Property" THEN {"xpath"} ELSE {})
        \cup (IF cust # <<>> THEN {"custom"}
              ELSE IF inc THEN {"all_attrs"} ELSE {})

\* The reads whose exception nothing catches: all but the xpath script.
ReadsUnguarded(m, inc, cust) == ReadsMade(m, inc, cust) \ {"xpath"}

\* Property.py lines 118-135: the attributes of the finished instance.
Attributes(e, inc, cust) ==
    IF cust # <<>>
    THEN IF Truthy(ReadValue(e, "custom"))
         THEN Dict(<<<<cust[1], ReadValue(e, "custom").s>>>>)
         ELSE Dict(<<>>)
    ELSE IF inc THEN ReadValue(e, "all_attrs")
    ELSE Dict(<<>>)

NoInstance == [kind |-> "none"]

from_selenium_element(m, e, inc, cust) ==
    LET raising == {i \in DOMAIN ReadOrder :
                       /\ ReadOrder[i] \in ReadsUnguarded(m, inc, cust)
                       /\ e[ReadOrder[i]] = "raises"}
        classes == ReadValue(e, "class")
        made == WebElementData(m, ReadValue(e, "tag_name"), ReadValue(e, "id"),
                    IF Truthy(classes) THEN List(split(classes.s))
                    ELSE List(<<>>),
                    ReadValue(e, "text"), ReadValue(e, "href"),
                    ReadValue(e, "src"), ReadValue(e, "name"),
                    ReadValue(e, "value"), get_absolute_xpath(e), None)
    IN  IF raising # {}
        THEN [kind |-> "raised",
              at |-> ReadOrder[CHOOSE i \in raising : \A j \in raising : i <= j]]
        ELSE [kind |-> "instance",
              data |-> [made EXCEPT !.attributes = Attributes(e, inc, cust)]]

\* ------------------------------------------------------- signed pickles
\* Bytes are numbers 0..255, byte strings their sequences.
Slice(bs, a, b) == SubSeq(bs, a, IF b < Len(bs) THEN b ELSE Len(bs))
Fill(n, b) == [i \in 1..n |-> b]

SecurityError == "SecurityError"
UnpicklingError == "UnpicklingError"
Algorithms == {"sha256", "sha512"}
Keys == {<<7>>, <<7, 200>>}
Objects == {"hello", "button#submit", "None"}

\* hashlib.sha256().digest_size and hashlib.sha512().digest_size.
digest_size(alg) == IF alg = "sha256" THEN 32 ELSE 64

\* pickle.dumps: one byte string per object, protocol byte 0x80 first.
pickle_dumps(o) ==
    CASE o = "hello" -> <<128, 4, 140>>
      [] o = "button#submit" -> <<128, 4, 149, 1>>
      [] o = "None" -> <<128, 4, 78>>

\* pickle.loads: the object of a well-formed pickle, else UnpicklingError.
pickle_loads(bs) ==
    IF \E o \in Objects : pickle_dumps(o) = bs
    THEN [kind |-> "value", obj |-> CHOOSE o \in Objects : pickle_dumps(o) = bs,
          cls |-> "", unpickled |-> <<bs>>]
    ELSE [kind |-> "raised", obj |-> "", cls |-> UnpicklingError,
          unpickled |-> <<bs>>]

\* hmac.new(key, msg, digestmod).digest() as an ideal MAC: digest_size
\* bytes that differ whenever key, message or algorithm differ.
hmac_digest(key, msg, alg) ==
    LET body == <<Len(key)>> \o key \o <<Len(msg)>> \o msg
    IN  body \o Fill(digest_size(alg) - Len(body), IF alg = "sha256" THEN 92 ELSE 54)

\* hmac.compare_digest.
compare_digest(a, b) == a = b

\* SecurePickle.dumps with the payload in front of the signature.
dumps_PayloadFirst(key, alg, o) == pickle_dumps(o) \o hmac_digest(key, pickle_dumps(o), alg)

dumps(key, alg, o) == hmac_digest(key, pickle_dumps(o), alg) \o pickle_dumps(o)

\* SecurePickle.loads without the signature test.
loads_NoVerify(key, alg, secure_data) == pickle_loads(Slice(secure_data, digest_size(alg) + 1, Len(secure_data)))

loads(key, alg, secure_data) ==
    LET handheld_signature == Slice(secure_data, 1, digest_size(alg))
        pickled_data == Slice(secure_data, digest_size(alg) + 1, Len(secure_data))
        expected_signature == hmac_digest(key, pickled_data, alg)
    IN  IF ~compare_digest(expected_signature, handheld_signature)
        THEN [kind |-> "raised", obj |-> "", cls |-> SecurityError,
              unpickled |-> <<>>]
        ELSE pickle_loads(pickled_data)

RECURSIVE b64encode(_)
\* base64.b64encode: three bytes become four 6-bit digits; 64 stands for '='.
b64encode(bs) ==
    IF bs = <<>> THEN <<>>
    ELSE IF Len(bs) = 1
    THEN <<bs[1] \div 4, (bs[1] % 4) * 16, 64, 64>>
    ELSE IF Len(bs) = 2
    THEN <<bs[1] \div 4, (bs[1] % 4) * 16 + bs[2] \div 16, (bs[2] % 16) * 4, 64>>
    ELSE <<bs[1] \div 4, (bs[1] % 4) * 16 + bs[2] \div 16,
           (bs[2] % 16) * 4 + bs[3] \div 64, bs[3] % 64>>
         \o b64encode(SubSeq(bs, 4, Len(bs)))

RECURSIVE b64decode(_)
\* base64.b64decode of well-padded text.
b64decode(cs) ==
    IF Len(cs) < 4 THEN <<>>
    ELSE (IF cs[3] = 64 THEN <<cs[1] * 4 + cs[2] \div 16>>
          ELSE IF cs[4] = 64
          THEN <<cs[1] * 4 + cs[2] \div 16, (cs[2] % 16) * 16 + cs[3] \div 4>>
          ELSE <<cs[1] * 4 + cs[2] \div 16, (cs[2] % 16) * 16 + cs[3] \div 4,
                 (cs[3] % 4) * 64 + cs[4]>>)
         \o b64decode(SubSeq(cs, 5, Len(cs)))

NoJson == [signature |-> <<>>, data |-> <<>>, algorithm |-> ""]

\* SecurePickle.to_json_safe: the dictionary it returns (and writes).
to_json_safe(key, alg, o) ==
    LET secure_data == dumps(key, alg, o)
    IN  [signature |-> b64encode(Slice(secure_data, 1, digest_size(alg))),
         data |-> b64encode(Slice(secure_data, digest_size(alg) + 1, Len(secure_data))),
         algorithm |-> alg]

\* SecurePickle.from_json_safe on a dictionary.
from_json_safe(key, alg, json_data) == loads(key, alg, b64decode(json_data.signature) \o b64decode(json_data.data))

export_key(key) == b64encode(key)
import_key(base64_key, alg) == [secret_key |-> b64decode(base64_key), algorithm |-> alg]

\* What can happen to signed bytes before they are loaded: a byte of the
\* signature or of the payload changed, the data cut short, a byte added.
Tamperings(bs, n) ==
    {[bs EXCEPT ![i] = (bs[i] + 1) % 256] : i \in {1, n, n + 1, Len(bs)} \cap DOMAIN bs}
        \cup {SubSeq(bs, 1, m) : m \in {0, n - 1, n} \cap (0..Len(bs))}
        \cup {Append(bs, 0)}

NoSent == [key |-> <<>>, obj |-> ""]
NoWire == [kind |-> "none", bytes |-> <<>>, json |-> NoJson, tampered |-> FALSE]
NoLoaded == [kind |-> "none", obj |-> "", cls |-> "", unpickled |-> <<>>]

\* No SecurePickle is in use in the other specifications.
PickleIdle ==
    /\ secret_key = <<>>
    /\ algorithm = "sha256"
    /\ sent = NoSent
    /\ wire = NoWire
    /\ imported = FALSE
    /\ loaded = NoLoaded

\* ------------------------------------------------------ IniConfigHandler
\* update_env calls one handler makes, the constructor's included.
MaxUpdates == 2

\* A dict is a function on its keys.
EmptyDict == [k \in {} |-> ""]
DictSet(d, k, v) == [x \in DOMAIN d \cup {k} |-> IF x = k THEN v ELSE d[x]]

\* f"{self.env_prefix}{key.upper()}" with the default prefix APP_.
env_name(key) ==
    CASE key \in {"browser", "Browser"} -> "APP_BROWSER"
      [] key = "timeout" -> "APP_TIMEOUT"

\* Variables a configuration can name, and one it cannot.
InjectableNames == {"APP_BROWSER", "APP_TIMEOUT"}
ForeignName == "HOME"

\* The [driver] sections met: none or empty, one option, two options.
Parsers ==
    {<<>>,
     <<[key |-> "browser", value |-> "chrome"]>>,
     <<[key |-> "browser", value |-> "chrome"], [key |-> "timeout", value |-> "30"]>>}

\* The environments a handler can be constructed in.
Environments ==
    {[n \in S \cup {ForeignName} |-> IF n = ForeignName THEN "/root" ELSE "preset"] :
        S \in SUBSET InjectableNames}

\* Line 103: the variable is written when it exists already or when
\* overwriting is allowed.
ShouldInject(env, n, overwrite) == (n \in DOMAIN env) \/ overwrite

\* Lines 99-100: the current value is saved whenever the variable exists.
SaveOriginal(original, env, n) == IF n \in DOMAIN env THEN DictSet(original, n, env[n]) ELSE original

RECURSIVE update_env(_, _, _)
\* IniConfigHandler.update_env over the options left; st holds os.environ,
\* original_env_var and injected_env_var.
update_env(st, options, overwrite) ==
    IF options = <<>> THEN st
    ELSE LET n == env_name(Head(options).key)
             inject == ShouldInject(st.environ, n, overwrite)
         IN  update_env(
                 [environ |-> IF inject THEN DictSet(st.environ, n, Head(options).value)
                              ELSE st.environ,
                  original |-> SaveOriginal(st.original, st.environ, n),
                  injected |-> IF inject THEN st.injected \cup {n} ELSE st.injected],
                 Tail(options), overwrite)

\* IniConfigHandler.cleanup_env: what it leaves in os.environ.
cleanup_env(env, original, injected) ==
    [n \in (DOMAIN env \ injected) \cup (injected \cap DOMAIN original) |->
        IF n \in injected THEN original[n] ELSE env[n]]

NoEnvCalls == [updates |-> 0, cleanups |-> 0, last |-> "none"]

\* No IniConfigHandler exists in the other specifications.
ConfigIdle ==
    /\ environ = EmptyDict
    /\ parser = <<>>
    /\ overwrite_env = TRUE
    /\ original_env_var = EmptyDict
    /\ injected_env_var = {}
    /\ env_calls = NoEnvCalls
    /\ env_before = [first |-> EmptyDict, last |-> EmptyDict]

\* --------------------------------------------------------- patch_driver
\* patch_driver calls made on the drivers of one process.
MaxPatches == 2

Drivers == {"d1", "d2"}

\* A callable: the driver's own bound find_element, or the interceptor's
\* find_element_wrapper, which calls _find_element_handler.
Original(d) == [kind |-> "original", driver |-> d]
Wrapper == [kind |-> "wrapper", driver |-> ""]
NoMethod == [kind |-> "none", driver |-> ""]

NoPCall == [fn |-> "none", driver |-> "", depth |-> 0, pc |-> "idle"]
NoPLog == [attempts |-> 0, executed |-> <<>>, recoveries |-> 0, result |-> "none"]

\* Nothing is patched again in the other specifications.
PatchIdle ==
    /\ find_element_attr = [d \in Drivers |-> Original(d)]
    /\ original_methods = NoMethod
    /\ webelement_click = 0
    /\ patches = 0
    /\ pcall = NoPCall
    /\ plog = NoPLog

\* ------------------------------------------------------------ BuildLogger
\* Threads calling get_default_logger, and BuildLogger(...) calls made
\* directly.
NumThreads == 2
MaxBuilds == 2

Threads == 1..NumThreads
NoThread == 0

\* Keyword arguments as the caller wrote them: (name, value) in order.
KwargSets ==
    {<<<<"use_console", "True">>>>,
     <<<<"use_timed_rotating", "True">>>>,
     <<<<"log_name", "'a.log'">>, <<"use_console", "True">>>>}

\* kwargs.get(name, default).
Kw(kwargs, name, default) ==
    IF \E i \in DOMAIN kwargs : kwargs[i][1] = name
    THEN kwargs[CHOOSE i \in DOMAIN kwargs : kwargs[i][1] = name][2]
    ELSE default

\* instance_key = str(kwargs): the items in the order written.
instance_key(kwargs) == kwargs

\* self.log_name: the argument, or 'healing_' + today + '.log'.
log_name(kwargs) == Kw(kwargs, "log_name", "'healing_<today>.log'")

\* logging.getLogger(__name__) of utils/logutil/logutil.py.
ModuleLogger == "'utils.logutil.logutil'"
LoggerNames == {log_name(k) : k \in KwargSets} \cup {ModuleLogger}

\* The keywords __init__ passes to _init_logger (lines 49-55).
InitLoggerKwargs == {"use_console", "use_timed_rotating", "timed_when", "timed_interval", "timed_back_count"}

\* What _init_logger reads for the timed handler: kwargs['timed_backup_count']
\* is not among the keywords passed, so building it raises KeyError.
TimedHandlerRaises == "timed_backup_count" \notin InitLoggerKwargs

\* Variant: handlers are attached on every construction.
NeedsHandlers_Always(hs) == TRUE

\* Line 67: `if not self.logger.handlers`.
NeedsHandlers(hs) == hs = <<>>

\* _init_logger: the handlers of the named logger afterwards.
init_logger_handlers(hs, kwargs) ==
    IF ~NeedsHandlers(hs) THEN hs
    ELSE hs \o <<"RotatingFileHandler">>
            \o (IF Kw(kwargs, "use_console", "False") = "True"
                THEN <<"StreamHandler">> ELSE <<>>)
            \o (IF Kw(kwargs, "use_timed_rotating", "False") = "True" /\ ~TimedHandlerRaises
                THEN <<"TimedRotatingFileHandler">> ELSE <<>>)

\* _init_logger: the logger the instance ends up with; the module logger
\* when the except branch ran.
init_logger_logger(hs, kwargs) ==
    IF NeedsHandlers(hs) /\ Kw(kwargs, "use_timed_rotating", "False") = "True" /\ TimedHandlerRaises
    THEN ModuleLogger
    ELSE log_name(kwargs)

\* Variant: no lock around the table.
LockFree_Always(l) == TRUE

\* `with cls._lock`: the lock can be taken when nobody holds it.
LockFree(l) == l = NoThread

NoKwargs == <<>>
NoInstanceYet == [id |-> 0, logger |-> ""]
NoThreadCall == [pc |-> "idle", kwargs |-> NoKwargs, made |-> NoInstanceYet, logger |-> ""]

\* No logger is built in the other specifications.
LoggerIdle ==
    /\ instances = EmptyDict
    /\ lock = NoThread
    /\ threads = [t \in Threads |-> NoThreadCall]
    /\ handlers = [n \in LoggerNames |-> <<>>]
    /\ built = <<>>

\* No capture is under way in the interception specifications.
CaptureIdle ==
    /\ element = [r \in ReadNames |-> "str"]
    /\ include_attributes = FALSE
    /\ custom_attributes = <<>>
    /\ data_module = "Property"
    /\ instance = NoInstance

LibIdle == CaptureIdle /\ PickleIdle /\ ConfigIdle /\ PatchIdle /\ LoggerIdle

CoreIdle ==
    /\ stack = <<>>
    /\ ret = NoRet
    /\ call = NoCall
    /\ registry = [h \in Handles |-> NoLoc]
    /\ auto_heal \in BOOLEAN
    /\ current_driver \in {"patched", "unpatched"}
    /\ events = <<>>
    /\ heals = <<>>
    /\ page_reads = 0
    /\ finds = <<>>
    /\ reresolves = 0
    /\ acts = <<>>
    /\ nexc = 0
    /\ trace = <<>>

Init == CoreIdle /\ LibIdle

\* The interception layer at rest with its settings fixed, for the
\* specifications of the libraries.
CoreAtRest == CoreIdle /\ auto_heal /\ current_driver = "unpatched"

\* A new invocation starts with empty logs.
ResetLogs ==
    /\ ret' = NoRet
    /\ events' = <<>>
    /\ heals' = <<>>
    /\ page_reads' = 0
    /\ finds' = <<>>
    /\ reresolves' = 0
    /\ acts' = <<>>
    /\ nexc' = 0
    /\ trace' = <<>>

\* The caller calls driver.find_element(by, value): find_element_wrapper.
CallFindElement ==
    /\ Idle
    /\ \E loc \in CallerLocs :
        /\ call' = [NoCall EXCEPT !.fn = "find_element", !.loc = loc]
        /\ stack' = <<Frame("find_element", "try", loc, NoHandle, "", "")>>
    /\ ResetLogs
    /\ UNCHANGED <<registry, auto_heal, current_driver, lib_vars>>

\* The caller calls driver.find_elements(by, value): find_elements_wrapper.
CallFindElements ==
    /\ Idle
    /\ \E loc \in CallerLocs :
        /\ call' = [NoCall EXCEPT !.fn = "find_elements", !.loc = loc]
        /\ stack' = <<Frame("find_elements", "try", loc, NoHandle, "", "")>>
    /\ ResetLogs
    /\ UNCHANGED <<registry, auto_heal, current_driver, lib_vars>>

\* The caller calls element.click(...), element.send_keys(...): wrapper.
CallAction ==
    /\ Idle
    /\ \E h \in Handles, m \in action_methods : \E a \in ArgSets[m] :
        /\ call' = [NoCall EXCEPT !.fn = "action", !.h = h, !.method = m,
                                  !.args = a, !.info = get_element_info(h)]
        /\ stack' = <<Frame("action", "try", NoLoc, h, m, a)>>
    /\ ResetLogs
    /\ UNCHANGED <<registry, auto_heal, current_driver, lib_vars>>

\* _find_element_handler, the try block and the except clause up to the
\* decision to heal.
FindElementTry ==
    /\ Running /\ Top.fn = "find_element" /\ Top.pc = "try"
    /\ \E o \in LookupOutcomes :
        /\ finds' = Append(finds, Found("find_element", Top.loc, o))
        /\ trace' = trace \o FindTryCalls(o.ok, FindHealable(o.cls))
        /\ IF o.ok
           THEN /\ events' = events \o <<Ev("find_attempt", "find_element"),
                                         Ev("find_success", "find_element")>>
                /\ registry' = record_find_success(registry, "find_element", Top.loc, o.h)
                /\ Pop(TryReturn(Val(o.h, "", <<>>)))
                /\ nexc' = nexc
           ELSE /\ nexc' = nexc + 1
                /\ registry' = registry
                /\ IF FindHealable(o.cls)
                   THEN /\ events' = events \o <<Ev("find_attempt", "find_element"),
                                                 Ev("find_failure", "find_element")>>
                        /\ IF HealingEnabled(auto_heal)
                           THEN /\ stack' = SetTop([Top EXCEPT !.pc = "page_source",
                                                               !.exc = Exc(o.cls, nexc + 1)])
                                /\ ret' = ret
                           ELSE Pop(Raised(Exc(o.cls, nexc + 1)))
                   ELSE /\ events' = Append(events, Ev("find_attempt", "find_element"))
                        /\ Pop(Raised(Exc(o.cls, nexc + 1)))
    /\ UNCHANGED <<call, auto_heal, current_driver, heals, page_reads, reresolves, acts, lib_vars>>

\* _find_elements_handler, whole.
FindElementsHandler ==
    /\ Running /\ Top.fn = "find_elements" /\ Top.pc = "try"
    /\ \E o \in LookupManyOutcomes :
        /\ finds' = Append(finds, [fn |-> "find_elements", loc |-> Top.loc, ok |-> o.ok,
                                   cls |-> o.cls, h |-> NoHandle])
        /\ trace' = trace \o FindManyCalls(o.ok, FindElementsCaught(o.cls), auto_heal)
        /\ IF o.ok
           THEN /\ events' = events \o <<Ev("find_attempt", "find_elements"),
                                         Ev("find_success", "find_elements")>>
                /\ Pop(TryReturn(Val(NoHandle, "", o.els)))
                /\ nexc' = nexc
           ELSE /\ nexc' = nexc + 1
                /\ IF FindElementsCaught(o.cls)
                   THEN /\ events' = events
                                \o <<Ev("find_attempt", "find_elements"),
                                     Ev("find_failure", "find_elements")>>
                                \o (IF auto_heal
                                    THEN <<Ev("healing_attempt", "find_elements")>>
                                    ELSE <<>>)
                        /\ IF FindElementsHeals(auto_heal)
                           THEN /\ stack' = SetTop([Top EXCEPT !.pc = "page_source",
                                                               !.exc = Exc(o.cls, nexc + 1)])
                                /\ ret' = ret
                           ELSE Pop(Returned(Val(NoHandle, "", <<>>)))
                   ELSE /\ events' = Append(events, Ev("find_attempt", "find_elements"))
                        /\ Pop(Raised(Exc(o.cls, nexc + 1)))
    /\ UNCHANGED <<call, registry, auto_heal, current_driver, heals, page_reads,
                   reresolves, acts, lib_vars>>

\* wrapper of _create_action_wrapper, the try block and the except clause up
\* to the registry lookup of _attempt_element_recovery.
ActionTry ==
    /\ Running /\ Top.fn = "action" /\ Top.pc = "try"
    /\ \E o \in ActionOutcomes :
        /\ acts' = Append(acts, [h |-> Top.h, method |-> Top.method, args |-> Top.args,
                                 ok |-> o.ok, cls |-> o.cls, res |-> o.res])
        /\ trace' = trace \o ActionTryCalls(o.ok, ActionHealable(o.cls), auto_heal)
        /\ IF o.ok
           THEN /\ events' = events \o <<Ev("action_attempt", Top.method),
                                         Ev("action_success", Top.method)>>
                /\ Pop(TryReturn(Val(NoHandle, o.res, <<>>)))
                /\ nexc' = nexc
           ELSE /\ nexc' = nexc + 1
                /\ IF ActionHealable(o.cls)
                   THEN /\ events' = events \o <<Ev("action_attempt", Top.method),
                                                 Ev("stale_element", Top.method)>>
                        /\ IF HealingEnabled(auto_heal) /\ RecoveryPossible(get_element_info(Top.h))
                           THEN /\ stack' = SetTop([Top EXCEPT
                                                !.pc = "page_source",
                                                !.exc = Exc(o.cls, nexc + 1),
                                                !.loc = get_element_info(Top.h)])
                                /\ ret' = ret
                           ELSE Pop(Raised(Exc(o.cls, nexc + 1)))
                   ELSE /\ events' = Append(events, Ev("action_attempt", Top.method))
                        /\ Pop(Raised(Exc(o.cls, nexc + 1)))
    /\ UNCHANGED <<call, registry, auto_heal, current_driver, heals, page_reads,
                   finds, reresolves, lib_vars>>

\* driver = self.monitor.get_current_driver(); page_source = driver.page_source
HealPageSource ==
    /\ Running /\ Top.pc = "page_source"
    /\ page_reads' = page_reads + 1
    /\ trace' = Append(trace, "driver.page_source")
    /\ \E ok \in BOOLEAN :
        IF ok
        THEN /\ stack' = SetTop([Top EXCEPT !.pc = "heal"])
             /\ ret' = ret
             /\ nexc' = nexc
        ELSE /\ Pop(Raised(Exc(PageSourceError, nexc + 1)))
             /\ nexc' = nexc + 1
    /\ UNCHANGED <<call, registry, auto_heal, current_driver, events, heals,
                   finds, reresolves, acts, lib_vars>>

\* healing_result = self.healer.heal(locator, page_source, reason) and the
\* test of the result.
HealCall ==
    /\ Running /\ Top.pc = "heal"
    /\ \E hr \in HealOutcomes :
        /\ heals' = Append(heals, [loc |-> HealLocator(Top), out |-> hr])
        /\ trace' = Append(trace, "healer.heal")
        /\ IF hr.kind = "raise"
           THEN /\ Pop(Raised(Exc(HealerError, nexc + 1)))
                /\ nexc' = nexc + 1
           ELSE /\ nexc' = nexc
                /\ IF HealingAccepted(hr)
                   THEN /\ stack' = SetTop([Top EXCEPT !.pc = "reresolve",
                                                       !.new_xpath = hr.new_xpath])
                        /\ ret' = ret
                   ELSE Pop(Raised(Top.exc))
    /\ UNCHANGED <<call, registry, auto_heal, current_driver, events, page_reads,
                   finds, reresolves, acts, lib_vars>>

\* driver.find_element(By.XPATH, healing_result.new_xpath) inside try.
HealReResolve ==
    /\ Running /\ Top.pc = "reresolve"
    /\ reresolves' = reresolves + 1
    /\ trace' = trace \o ReResolveCalls(ReResolveIsWrapped(current_driver))
    /\ IF ReResolveIsWrapped(current_driver)
       THEN IF Len(stack) < MaxDepth
            THEN /\ stack' = Append(SetTop([Top EXCEPT !.pc = "resolved"]),
                                    Frame("find_element", "try",
                                          ReResolveLoc(Top.new_xpath), NoHandle, "", ""))
                 /\ ret' = ret
                 /\ UNCHANGED <<finds, nexc>>
            ELSE /\ stack' = SetTop([Top EXCEPT !.pc = "resolved"])
                 /\ ret' = Raised(Exc(RecursionError, nexc + 1))
                 /\ nexc' = nexc + 1
                 /\ finds' = finds
       ELSE \E o \in LookupOutcomes :
                /\ finds' = Append(finds, Found("find_element", ReResolveLoc(Top.new_xpath), o))
                /\ stack' = SetTop([Top EXCEPT !.pc = "resolved"])
                /\ IF o.ok
                   THEN /\ ret' = Returned(Val(o.h, "", <<>>))
                        /\ nexc' = nexc
                   ELSE /\ ret' = Raised(Exc(o.cls, nexc + 1))
                        /\ nexc' = nexc + 1
    /\ UNCHANGED <<call, registry, auto_heal, current_driver, events, heals,
                   page_reads, acts, lib_vars>>

\* The re-resolution came back: record_healing_success and return the
\* element, or except Exception: record_healing_failure, return None, and
\* the handler's bare raise.
HealResolved ==
    /\ Running /\ Top.pc = "resolved" /\ ret.kind # "none"
    /\ trace' = Append(trace, HealResolvedCall(ret.kind = "value"))
    /\ IF ret.kind = "value"
       THEN /\ events' = Append(events, Ev("healing_success", Top.fn))
            /\ IF Top.fn = "find_element"
               THEN Pop(Returned(ret.val))
               ELSE /\ stack' = SetTop([Top EXCEPT !.pc = "replay",
                                                   !.newh = ret.val.h])
                    /\ ret' = NoRet
       ELSE /\ events' = Append(events, Ev("healing_failure", Top.fn))
            /\ Pop(Raised(Top.exc))
    /\ UNCHANGED <<call, registry, auto_heal, current_driver, heals, page_reads,
                   finds, reresolves, acts, nexc, lib_vars>>

\* return getattr(healed_element, method_name)(*args, **kwargs): the method
\* of the new element is the patched one.
ActionReplay ==
    /\ Running /\ Top.fn = "action" /\ Top.pc = "replay"
    /\ trace' = Append(trace, "healed_element.method")
    /\ IF Len(stack) < MaxDepth
       THEN /\ stack' = Append(SetTop([Top EXCEPT !.pc = "replayed"]), ReplayFrame(Top))
            /\ ret' = ret
            /\ nexc' = nexc
       ELSE /\ Pop(Raised(Exc(RecursionError, nexc + 1)))
            /\ nexc' = nexc + 1
    /\ UNCHANGED <<call, registry, auto_heal, current_driver, events, heals,
                   page_reads, finds, reresolves, acts, lib_vars>>

\* The replay came back: its result is returned, its exception propagates.
ActionReplayed ==
    /\ Running /\ Top.fn = "action" /\ Top.pc = "replayed" /\ ret.kind # "none"
    /\ Pop(ret)
    /\ trace' = trace
    /\ UNCHANGED <<call, registry, auto_heal, current_driver, events, heals,
                   page_reads, finds, reresolves, acts, nexc, lib_vars>>

\* The monitor drops an entry (explicit or age-based eviction) between two
\* invocations; the finished invocation is no longer under observation.
Evict ==
    /\ Idle
    /\ \E h \in Handles :
        /\ registry[h] # NoLoc
        /\ registry' = [registry EXCEPT ![h] = NoLoc]
    /\ call' = NoCall
    /\ ResetLogs
    /\ UNCHANGED <<stack, auto_heal, current_driver, lib_vars>>

Next ==
    \/ CallFindElement
    \/ CallFindElements
    \/ CallAction
    \/ FindElementTry
    \/ FindElementsHandler
    \/ ActionTry
    \/ HealPageSource
    \/ HealCall
    \/ HealReResolve
    \/ HealResolved
    \/ ActionReplay
    \/ ActionReplayed
    \/ Evict

Spec == Init /\ [][Next]_vars

\* ------------------------------------------------- a recorder that can fail
\* _find_element_handler when a monitor.record_* call of its try block
\* raises: record_find_attempt before the lookup is made, or
\* record_find_success after the driver returned the element.  The except
\* clause names the two driver exceptions only, so the recorder's exception
\* leaves the handler.
FindElementTryRecorderRaises ==
    /\ Running /\ Top.fn = "find_element" /\ Top.pc = "try"
    /\ \/ /\ trace' = Append(trace, "monitor.record_find_attempt")
          /\ finds' = finds
       \/ \E o \in {x \in LookupOutcomes : x.ok} :
             /\ trace' = trace \o FindTryCalls(TRUE, FALSE)
             /\ finds' = Append(finds, Found("find_element", Top.loc, o))
    /\ events' = events
    /\ nexc' = nexc + 1
    /\ Pop(Raised(Exc(RecorderError, nexc + 1)))
    /\ UNCHANGED <<call, registry, auto_heal, current_driver, heals, page_reads,
                   reresolves, acts, lib_vars>>

\* The action wrapper when record_action_attempt or record_action_success
\* raises: except StaleElementReferenceException does not catch it.
ActionTryRecorderRaises ==
    /\ Running /\ Top.fn = "action" /\ Top.pc = "try"
    /\ \/ /\ trace' = Append(trace, "monitor.record_action_attempt")
          /\ acts' = acts
       \/ \E o \in {x \in ActionOutcomes : x.ok} :
             /\ trace' = trace \o ActionTryCalls(TRUE, FALSE, auto_heal)
             /\ acts' = Append(acts, [h |-> Top.h, method |-> Top.method,
                                      args |-> Top.args, ok |-> o.ok,
                                      cls |-> o.cls, res |-> o.res])
    /\ events' = events
    /\ nexc' = nexc + 1
    /\ Pop(Raised(Exc(RecorderError, nexc + 1)))
    /\ UNCHANGED <<call, registry, auto_heal, current_driver, heals, page_reads,
                   finds, reresolves, lib_vars>>

\* The re-resolution returned an element and record_healing_success raises
\* inside the try: except Exception takes it for a failed re-resolution,
\* records the healing failure and returns None; the handler re-raises.
HealSuccessRecorderRaises ==
    /\ Running /\ Top.pc = "resolved" /\ ret.kind = "value"
    /\ trace' = trace \o <<"monitor.record_healing_success",
                            "monitor.record_healing_failure">>
    /\ events' = Append(events, Ev("healing_failure", Top.fn))
    /\ nexc' = nexc + 1
    /\ Pop(Raised(Top.exc))
    /\ UNCHANGED <<call, registry, auto_heal, current_driver, heals, page_reads,
                   finds, reresolves, acts, lib_vars>>

NextRecorder ==
    \/ Next
    \/ FindElementTryRecorderRaises
    \/ ActionTryRecorderRaises
    \/ HealSuccessRecorderRaises

\* The interception layer with a monitor whose notifications may raise.
SpecRecorder == Init /\ [][NextRecorder]_vars

\* ------------------------------------------------------- snapshot capture
\* Any handle, any arguments, either module; nothing captured yet.
InitCapture ==
    /\ CoreAtRest
    /\ element \in Elements
    /\ include_attributes \in BOOLEAN
    /\ custom_attributes \in CustomAttributeLists
    /\ data_module \in DataModules
    /\ instance = NoInstance
    /\ PickleIdle /\ ConfigIdle /\ PatchIdle /\ LoggerIdle

\* One call of WebElementData.from_selenium_element.
Capture ==
    /\ instance.kind = "none"
    /\ instance' = from_selenium_element(data_module, element,
                                          include_attributes, custom_attributes)
    /\ UNCHANGED <<outside_capture, element, include_attributes, custom_attributes,
                   data_module>>

NextCapture == Capture

SpecCapture == InitCapture /\ [][NextCapture]_vars

\* --------------------------------------------------------- SecurePickle
\* A SecurePickle with any key and either algorithm; nothing serialized yet.
InitPickle ==
    /\ CoreAtRest /\ CaptureIdle /\ ConfigIdle /\ PatchIdle /\ LoggerIdle
    /\ secret_key \in Keys
    /\ algorithm \in Algorithms
    /\ sent = NoSent
    /\ wire = NoWire
    /\ imported = FALSE
    /\ loaded = NoLoaded

\* Somebody holding key k serializes an object with dumps.
PickleDumps ==
    /\ wire.kind = "none"
    /\ \E k \in Keys, o \in Objects :
          /\ sent' = [key |-> k, obj |-> o]
          /\ wire' = [NoWire EXCEPT !.kind = "bytes", !.bytes = dumps(k, algorithm, o)]
    /\ UNCHANGED <<outside_pickle, secret_key, algorithm, imported, loaded>>

\* The instance serializes an object with to_json_safe.
PickleToJsonSafe ==
    /\ wire.kind = "none"
    /\ \E o \in Objects :
          /\ sent' = [key |-> secret_key, obj |-> o]
          /\ wire' = [NoWire EXCEPT !.kind = "json",
                                    !.json = to_json_safe(secret_key, algorithm, o)]
    /\ UNCHANGED <<outside_pickle, secret_key, algorithm, imported, loaded>>

\* The bytes are modified before they reach loads.
PickleTamper ==
    /\ wire.kind = "bytes" /\ ~wire.tampered /\ loaded.kind = "none"
    /\ \E bs \in Tamperings(wire.bytes, digest_size(algorithm)) \ {wire.bytes} :
          wire' = [wire EXCEPT !.bytes = bs, !.tampered = TRUE]
    /\ UNCHANGED <<outside_pickle, secret_key, algorithm, sent, imported, loaded>>

\* The instance is replaced by import_key(export_key(), algorithm).
PickleImportKey ==
    /\ ~imported /\ loaded.kind = "none"
    /\ secret_key' = import_key(export_key(secret_key), algorithm).secret_key
    /\ algorithm' = import_key(export_key(secret_key), algorithm).algorithm
    /\ imported' = TRUE
    /\ UNCHANGED <<outside_pickle, sent, wire, loaded>>

PickleLoads ==
    /\ wire.kind = "bytes" /\ loaded.kind = "none"
    /\ loaded' = loads(secret_key, algorithm, wire.bytes)
    /\ UNCHANGED <<outside_pickle, secret_key, algorithm, sent, wire, imported>>

PickleFromJsonSafe ==
    /\ wire.kind = "json" /\ loaded.kind = "none"
    /\ loaded' = from_json_safe(secret_key, algorithm, wire.json)
    /\ UNCHANGED <<outside_pickle, secret_key, algorithm, sent, wire, imported>>

NextPickle ==
    \/ PickleDumps
    \/ PickleToJsonSafe
    \/ PickleTamper
    \/ PickleImportKey
    \/ PickleLoads
    \/ PickleFromJsonSafe

SpecPickle == InitPickle /\ [][NextPickle]_vars

\* ----------------------------------------------------- environment setup
\* A process environment, a parsed config.ini and the overwrite_env
\* argument; the handler is not constructed yet.
InitConfig ==
    /\ CoreAtRest /\ CaptureIdle /\ PickleIdle /\ PatchIdle /\ LoggerIdle
    /\ environ \in Environments
    /\ parser \in Parsers
    /\ overwrite_env \in BOOLEAN
    /\ original_env_var = EmptyDict
    /\ injected_env_var = {}
    /\ env_calls = NoEnvCalls
    /\ env_before = [first |-> environ, last |-> environ]

\* update_env: called by __init__ (line 85) and by the user afterwards.
ConfigUpdateEnv ==
    /\ env_calls.updates < MaxUpdates
    /\ LET st == update_env([environ |-> environ, original |-> original_env_var,
                             injected |-> injected_env_var], parser, overwrite_env)
       IN  /\ environ' = st.environ
           /\ original_env_var' = st.original
           /\ injected_env_var' = st.injected
    /\ env_calls' = [env_calls EXCEPT !.updates = @ + 1, !.last = "update_env"]
    /\ env_before' = [first |-> IF env_calls.updates = 0 THEN environ ELSE env_before.first,
                      last |-> environ]
    /\ UNCHANGED <<outside_config, parser, overwrite_env>>

\* cleanup_env, on a constructed handler.
ConfigCleanupEnv ==
    /\ env_calls.updates >= 1 /\ env_calls.cleanups < 2
    /\ environ' = cleanup_env(environ, original_env_var, injected_env_var)
    /\ injected_env_var' = {}
    /\ original_env_var' = EmptyDict
    /\ env_calls' = [env_calls EXCEPT !.cleanups = @ + 1, !.last = "cleanup_env"]
    /\ env_before' = [env_before EXCEPT !.last = environ]
    /\ UNCHANGED <<outside_config, parser, overwrite_env>>

NextConfig ==
    \/ ConfigUpdateEnv
    \/ ConfigCleanupEnv

SpecConfig == InitConfig /\ [][NextConfig]_vars

\* ------------------------------------------------- patching and calling
\* Unpatched drivers, an interceptor with empty original_methods.
InitPatch ==
    /\ CoreIdle /\ current_driver = "unpatched"
    /\ CaptureIdle /\ PickleIdle /\ ConfigIdle /\ PatchIdle /\ LoggerIdle

\* patch_driver(d): _patch_find_methods stores driver.find_element, whatever
\* it is by now, in the interceptor's one slot and puts the wrapper on the
\* driver; _patch_action_methods wraps what WebElement.click is by now.
PatchDriver ==
    /\ pcall.fn = "none" /\ patches < MaxPatches
    /\ \E d \in Drivers :
          /\ original_methods' = find_element_attr[d]
          /\ find_element_attr' = [find_element_attr EXCEPT ![d] = Wrapper]
    /\ webelement_click' = webelement_click + 1
    /\ patches' = patches + 1
    /\ UNCHANGED <<outside_patch, pcall, plog>>

\* The caller looks an element up on a patched driver.
PatchedFindElement ==
    /\ pcall.pc \in {"idle", "done"}
    /\ \E d \in {x \in Drivers : find_element_attr[x] = Wrapper} :
          pcall' = [fn |-> "find_element", driver |-> d, depth |-> 1, pc |-> "try"]
    /\ plog' = NoPLog
    /\ UNCHANGED <<outside_patch, find_element_attr, original_methods, webelement_click, patches>>

\* _find_element_handler up to its first attempt: record_find_attempt, then
\* self.original_methods['find_element'](by, value).  When the slot holds
\* the wrapper the handler is entered again, until the interpreter's
\* recursion limit.
PatchedFindTry ==
    /\ pcall.fn = "find_element" /\ pcall.pc = "try"
    /\ IF original_methods.kind = "original"
       THEN /\ \E r \in {"element", WebDriverException} :
                  plog' = [plog EXCEPT !.attempts = @ + 1,
                                       !.executed = Append(@, original_methods.driver),
                                       !.result = r]
            /\ pcall' = [pcall EXCEPT !.pc = "done"]
       ELSE IF pcall.depth >= MaxDepth
       THEN /\ plog' = [plog EXCEPT !.result = RecursionError]
            /\ pcall' = [pcall EXCEPT !.pc = "done"]
       ELSE /\ plog' = [plog EXCEPT !.attempts = @ + 1]
            /\ pcall' = [pcall EXCEPT !.depth = @ + 1]
    /\ UNCHANGED <<outside_patch, find_element_attr, original_methods, webelement_click, patches>>

\* The caller clicks an element; WebElement.click is the outermost wrapper.
PatchedClick ==
    /\ pcall.pc \in {"idle", "done"} /\ webelement_click >= 1
    /\ pcall' = [fn |-> "click", driver |-> "", depth |-> 1, pc |-> "try"]
    /\ plog' = NoPLog
    /\ UNCHANGED <<outside_patch, find_element_attr, original_methods, webelement_click, patches>>

\* One wrapper's try: record_action_attempt, then original_method, which is
\* the next wrapper inside or, innermost, selenium's click.  A click that
\* works returns through every wrapper; a stale element starts the
\* unwinding in the innermost wrapper.
PatchedClickTry ==
    /\ pcall.fn = "click" /\ pcall.pc = "try"
    /\ IF pcall.depth < webelement_click
       THEN /\ plog' = [plog EXCEPT !.attempts = @ + 1]
            /\ pcall' = [pcall EXCEPT !.depth = @ + 1]
       ELSE \/ /\ plog' = [plog EXCEPT !.attempts = @ + 1, !.result = "clicked",
                                       !.executed = Append(@, "click")]
               /\ pcall' = [pcall EXCEPT !.pc = "done"]
            \/ /\ plog' = [plog EXCEPT !.attempts = @ + 1,
                                       !.executed = Append(@, "click"),
                                       !.result = StaleElementReferenceException]
               /\ pcall' = [pcall EXCEPT !.pc = "except"]
    /\ UNCHANGED <<outside_patch, find_element_attr, original_methods, webelement_click, patches>>

\* One wrapper's except StaleElementReferenceException: with auto_heal a
\* recovery is attempted; the healer declines, and the exception is raised
\* again into the wrapper outside.
PatchedClickExcept ==
    /\ pcall.fn = "click" /\ pcall.pc = "except"
    /\ plog' = [plog EXCEPT !.recoveries = IF HealingEnabled(auto_heal) THEN @ + 1 ELSE @]
    /\ pcall' = IF pcall.depth > 1 THEN [pcall EXCEPT !.depth = @ - 1]
                ELSE [pcall EXCEPT !.depth = 0, !.pc = "done"]
    /\ UNCHANGED <<outside_patch, find_element_attr, original_methods, webelement_click, patches>>

NextPatch ==
    \/ PatchDriver
    \/ PatchedFindElement
    \/ PatchedFindTry
    \/ PatchedClick
    \/ PatchedClickTry
    \/ PatchedClickExcept

SpecPatch == InitPatch /\ [][NextPatch]_vars

\* --------------------------------------------------------------- loggers
\* A fresh process: empty instance table, free lock, loggers without
\* handlers.
InitLogger ==
    /\ CoreAtRest /\ CaptureIdle /\ PickleIdle /\ ConfigIdle /\ PatchIdle /\ LoggerIdle

\* BuildLogger.__init__ for one construction: _init_logger on the named
\* logger, and the record of the construction.
Build(kwargs, by) ==
    /\ handlers' = [handlers EXCEPT ![log_name(kwargs)] = init_logger_handlers(@, kwargs)]
    /\ built' = Append(built, [id |-> Len(built) + 1, by |-> by,
                               key |-> instance_key(kwargs),
                               log_name |-> log_name(kwargs),
                               before |-> handlers[log_name(kwargs)]])

\* A thread calls BuildLogger.get_default_logger(**kwargs).
LoggerCall ==
    /\ \E t \in Threads, k \in KwargSets :
          /\ threads[t].pc = "idle"
          /\ threads' = [threads EXCEPT ![t] = [NoThreadCall EXCEPT !.pc = "acquire", !.kwargs = k]]
    /\ UNCHANGED <<outside_logger, instances, lock, handlers, built>>

\* with cls._lock: entered.
LoggerAcquire ==
    /\ \E t \in Threads :
          /\ threads[t].pc = "acquire" /\ LockFree(lock)
          /\ lock' = t
          /\ threads' = [threads EXCEPT ![t].pc = "check"]
    /\ UNCHANGED <<outside_logger, instances, handlers, built>>

\* if instance_key not in cls._instance
LoggerCheck ==
    /\ \E t \in Threads :
          /\ threads[t].pc = "check"
          /\ threads' = [threads EXCEPT ![t].pc =
                            IF instance_key(threads[t].kwargs) \in DOMAIN instances
                            THEN "return" ELSE "construct"]
    /\ UNCHANGED <<outside_logger, instances, lock, handlers, built>>

\* cls(**kwargs)
LoggerConstruct ==
    /\ \E t \in Threads :
          /\ threads[t].pc = "construct"
          /\ Build(threads[t].kwargs, "get_default_logger")
          /\ threads' = [threads EXCEPT
                            ![t].pc = "store",
                            ![t].made = [id |-> Len(built) + 1,
                                         logger |-> init_logger_logger(handlers[log_name(threads[t].kwargs)], threads[t].kwargs)]]
    /\ UNCHANGED <<outside_logger, instances, lock>>

\* cls._instance[instance_key] = ...
LoggerStore ==
    /\ \E t \in Threads :
          /\ threads[t].pc = "store"
          /\ instances' = DictSet(instances, instance_key(threads[t].kwargs), threads[t].made)
          /\ threads' = [threads EXCEPT ![t].pc = "return"]
    /\ UNCHANGED <<outside_logger, lock, handlers, built>>

\* return cls._instance[instance_key].logger, leaving the with block.
LoggerReturn ==
    /\ \E t \in Threads :
          /\ threads[t].pc = "return"
          /\ threads' = [threads EXCEPT
                            ![t].pc = "done",
                            ![t].made = instances[instance_key(threads[t].kwargs)],
                            ![t].logger = instances[instance_key(threads[t].kwargs)].logger]
          /\ lock' = IF lock = t THEN NoThread ELSE lock
    /\ UNCHANGED <<outside_logger, instances, handlers, built>>

\* BuildLogger(**kwargs) called directly, as utils.logutil.get_logger does.
LoggerBuildDirect ==
    /\ Cardinality({i \in DOMAIN built : built[i].by = "BuildLogger"}) < MaxBuilds
    /\ \E k \in KwargSets : Build(k, "BuildLogger")
    /\ UNCHANGED <<outside_logger, instances, lock, threads>>

NextLogger ==
    \/ LoggerCall
    \/ LoggerAcquire
    \/ LoggerCheck
    \/ LoggerConstruct
    \/ LoggerStore
    \/ LoggerReturn
    \/ LoggerBuildDirect

SpecLogger == InitLogger /\ [][NextLogger]_vars

\* ------------------------------------------------------------------ claims
Healables == {NoSuchElementException, StaleElementReferenceException}
OkActs == {i \in 1..Len(acts) : acts[i].ok}
LookupDone == Done /\ call.fn = "find_element"
ManyDone == Done /\ call.fn = "find_elements"
ActionDone == Done /\ call.fn = "action"

\* C1: a single-element lookup whose driver lookup fails with not-found or
\* stale-reference calls heal once, reads the page snapshot at most once
\* and re-resolves once, whatever the healer answers, then raises the
\* original error when the candidate does not resolve; the re-resolution
\* does not enter healing again.
C1_OneRecoveryPerLookup ==
    (call.fn = "find_element" /\ finds # <<>> /\ finds[1].cls \in Healables)
        => /\ Len(heals) <= 1
           /\ page_reads <= 1
           /\ reresolves <= 1
           /\ Len(finds) <= 2
           /\ (Done /\ reresolves >= 1 /\ ret.kind = "exc")
                 => /\ Len(heals) = 1
                    /\ reresolves = 1
                    /\ ret = Raised(Exc(finds[1].cls, 1))

\* C2: one caller invocation of a wrapped element action executes the
\* underlying action at most twice and calls heal at most once, also when
\* the replay fails with stale-reference.
C2_ActionAtMostTwice ==
    call.fn = "action" => Len(acts) <= 2 /\ Len(heals) <= 1

\* C3: after every single-element lookup that returns a handle, the registry
\* holds an entry for that handle whose locator is the one the caller passed.
C3_RegisteredOnReturn ==
    (LookupDone /\ ret.kind = "value") => get_element_info(ret.val.h) = call.loc

\* C4: a wrapped action that fails with stale-reference on a handle without
\* a registry entry re-raises that error and attempts no recovery: no heal,
\* no page snapshot, no lookup, no replay.
C4_NoEntryNoRecovery ==
    (ActionDone /\ acts[1].cls = StaleElementReferenceException
                /\ call.info = NoLoc)
        => /\ ret = Raised(Exc(StaleElementReferenceException, 1))
           /\ heals = <<>>
           /\ page_reads = 0
           /\ finds = <<>>
           /\ reresolves = 0
           /\ Len(acts) = 1

\* C4 witness: healing is enabled, the handle is unknown to the registry and
\* the action failed stale.
C4_Witness ==
    /\ ActionDone /\ auto_heal /\ call.info = NoLoc
    /\ acts[1].cls = StaleElementReferenceException
    /\ ret.kind = "exc"

\* C5: once a lookup or an action has entered healing, the caller gets a
\* result or the original failure of its own driver call, never an error
\* that arose inside the recovery step.
C5_OnlyOriginalOrSuccess ==
    (Done /\ call.fn \in {"find_element", "action"} /\ page_reads >= 1)
        => \/ ret.kind = "value"
           \/ ret.exc.src = 1

\* C6: a multi-element lookup never calls heal, reads no page snapshot and
\* makes no re-resolution lookup, whatever the plural driver lookup does.
C6_PluralNeverHeals ==
    call.fn = "find_elements"
        => /\ heals = <<>>
           /\ page_reads = 0
           /\ reresolves = 0
           /\ Len(finds) <= 1
           /\ \A i \in 1..Len(stack) : stack[i].pc = "try"

\* C6 witness: a plural lookup failed with not-found while healing was on.
C6_Witness ==
    /\ ManyDone /\ auto_heal
    /\ finds[1].cls = NoSuchElementException
    /\ ret = Returned(NoVal)

\* C7: a failure of any class other than not-found / stale-reference on the
\* lookup path, or other than stale-reference on the action path, is raised
\* to the caller at once: no heal, no page snapshot, no re-resolution.
C7_OnlyHealableEntersHealing ==
    /\ (LookupDone /\ ~finds[1].ok /\ finds[1].cls \notin Healables)
          => /\ ret = Raised(Exc(finds[1].cls, 1))
             /\ heals = <<>> /\ page_reads = 0 /\ reresolves = 0
             /\ Len(finds) = 1
             /\ events = <<Ev("find_attempt", "find_element")>>
    /\ (ActionDone /\ ~acts[1].ok /\ acts[1].cls # StaleElementReferenceException)
          => /\ ret = Raised(Exc(acts[1].cls, 1))
             /\ heals = <<>> /\ page_reads = 0 /\ reresolves = 0
             /\ finds = <<>> /\ Len(acts) = 1
             /\ events = <<Ev("action_attempt", call.method)>>

\* C7 witness: with healing on, a lookup failed with another driver error
\* (and, on the action path, a registered handle failed with not-found).
C7_Witness ==
    \/ /\ LookupDone /\ auto_heal
       /\ finds[1].cls = WebDriverException
    \/ /\ ActionDone /\ auto_heal /\ call.info # NoLoc
       /\ acts[1].cls = NoSuchElementException

\* C8: when an action fails stale on a registered handle and healing
\* succeeds, the same action with the same arguments is replayed on the new
\* handle, the replay's result is what the caller gets, and the action takes
\* effect once.
C8_ReplaySameAction ==
    /\ \A i \in 1..Len(stack) :
          stack[i].pc \in {"replay", "replayed"}
              => /\ stack[i].newh \in Handles \ {stack[i].h}
                 /\ stack[i].pc = "replayed" /\ i < Len(stack)
                       => /\ stack[i + 1].fn = "action"
                          /\ stack[i + 1].h = stack[i].newh
    /\ call.fn = "action"
          => /\ \A i \in 1..Len(acts) :
                   /\ acts[i].method = call.method
                   /\ acts[i].args = call.args
                   /\ i > 1 => acts[i].h # call.h
             /\ Cardinality(OkActs) <= 1
    /\ (ActionDone /\ Len(acts) >= 2)
          => /\ acts[1].cls = StaleElementReferenceException
             /\ call.info # NoLoc
             /\ ret.kind = "value"
                   => /\ OkActs = {Len(acts)}
                      /\ ret.val.res = acts[Len(acts)].res

\* C8 witness: the action failed stale, was healed, and the replay returned.
C8_Witness ==
    /\ ActionDone /\ Len(acts) = 2
    /\ acts[1].cls = StaleElementReferenceException
    /\ acts[2].ok /\ acts[2].h # call.h
    /\ ret = Returned(Val(NoHandle, "r2", <<>>))

\* C9: when an action fails stale on a registered handle and the healer
\* answers success=false or nothing, the caller gets the original stale
\* error, nothing is replayed and no re-resolution lookup is made.
C9_DeclinedNoReplay ==
    (ActionDone /\ heals # <<>> /\ heals[1].out \in {HealNone, HealDeclined})
        => /\ ret = Raised(Exc(StaleElementReferenceException, 1))
           /\ Len(acts) = 1
           /\ reresolves = 0
           /\ finds = <<>>
           /\ Len(heals) = 1

\* C9 witness: a registered handle failed stale and the healer declined.
C9_Witness ==
    /\ ActionDone /\ call.info # NoLoc
    /\ acts[1].cls = StaleElementReferenceException
    /\ heals # <<>> /\ heals[1].out = HealDeclined

\* C10: when a lookup fails with not-found and is healed, the registry has
\* at return an entry for the new handle whose locator is the caller's
\* original locator.
C10_LineagePreserved ==
    (LookupDone /\ finds[1].cls = NoSuchElementException /\ ret.kind = "value")
        => /\ ret.val.h \in Handles
           /\ get_element_info(ret.val.h) = call.loc

\* The monitor was told name at some point of the invocation.
Notified(name) == \E i \in 1..Len(events) : events[i][1] = name

\* C11: after a stale action is recovered, the registry has dropped the
\* entry of the stale handle and holds one for the new handle with the same
\* origin locator.
C11_RegistrySwappedOnRecovery ==
    (ActionDone /\ Len(acts) >= 2 /\ acts[2].ok)
        => /\ get_element_info(call.h) = NoLoc
           /\ get_element_info(acts[2].h) = call.info

\* C12 as claimed: a multi-element lookup whose driver call fails, whatever
\* the failure, returns the empty list and never raises.
C12_PluralNeverRaises ==
    (ManyDone /\ ~finds[1].ok) => ret = Returned(NoVal)

\* C12 as amended: a multi-element lookup whose driver call fails with
\* not-found or stale-reference returns the empty list; a failure of any
\* other class is raised to the caller unchanged.
C12_PluralDegradesWhenCaught ==
    (ManyDone /\ ~finds[1].ok)
        => IF finds[1].cls \in Healables
           THEN ret = Returned(NoVal)
           ELSE ret = Raised(Exc(finds[1].cls, 1))

\* C12 witness: the plural driver lookup failed stale and the caller got [].
C12_Witness ==
    /\ ManyDone /\ finds[1].cls = StaleElementReferenceException
    /\ ret = Returned(NoVal)

\* C13: a healing step that produces no handle notifies HealingFailed before
\* the original failure is re-raised, when the healer declines as well as
\* when the re-resolution fails, on the lookup and on the action path.
C13_FailureNotified ==
    (Done /\ call.fn \in {"find_element", "action"} /\ heals # <<>>
          /\ ret = Raised(Exc(ret.exc.cls, 1)))
        => Notified("healing_failure")

\* Positions of a call in the trace, and how often the monitor was told name.
At(name) == {i \in 1..Len(trace) : trace[i] = name}
Count(name) == Cardinality({i \in 1..Len(events) : events[i][1] = name})
HealingOutcomes == {"monitor.record_healing_success", "monitor.record_healing_failure"}

\* C14: for a single-element lookup the recorder is told in protocol order:
\* AttemptStarted before the driver lookup; LookupSucceeded right after the
\* driver returned a handle and before it is returned; LookupFailed before
\* heal is called; HealingSucceeded / HealingFailed after the re-resolution
\* and as the last thing before the call returns or raises.
C14_EventsInProtocolOrder ==
    call.fn = "find_element"
        => /\ Len(trace) >= 1 => trace[1] = "monitor.record_find_attempt"
           /\ Len(trace) >= 2 => trace[2] = "original.find_element"
           /\ \A i \in At("monitor.record_find_success") :
                 i > 1 /\ trace[i - 1] = "original.find_element"
           /\ At("monitor.record_find_success") # {}
                 => \E k \in 1..Len(finds) : finds[k].ok
           /\ \A i \in At("healer.heal") :
                 \E j \in At("monitor.record_find_failure") : j < i
           /\ \A i \in 1..Len(trace) :
                 trace[i] \in HealingOutcomes
                     => \E j \in At("driver.find_element") : j < i
           /\ (Done /\ finds[1].ok)
                 => trace[Len(trace)] = "monitor.record_find_success"
           /\ (Done /\ reresolves >= 1)
                 => trace[Len(trace)] = HealResolvedCall(ret.kind = "value")

\* C14 witness: a lookup failed, was healed and returned the new handle.
C14_Witness ==
    /\ LookupDone /\ ret.kind = "value"
    /\ trace = <<"monitor.record_find_attempt", "original.find_element",
                 "monitor.record_find_failure", "driver.page_source", "healer.heal",
                 "driver.find_element", "original.find_element",
                 "monitor.record_healing_success">>

\* C15: one invocation of a single-element lookup passes through Attempting
\* once: one AttemptStarted, at most one of LookupSucceeded / LookupFailed,
\* and no new attempt once healing has begun.
C15_AttemptsOnce ==
    call.fn = "find_element"
        => /\ Count("find_attempt") <= 1
           /\ Count("find_success") + Count("find_failure") <= 1
           /\ Done => Count("find_attempt") = 1
           /\ \A i \in At("monitor.record_find_attempt") :
                 \A j \in At("healer.heal") \cup At("driver.page_source") : i < j

\* C16: the recovery of an invocation is bounded and does not recurse: a
\* lookup runs in its own wrapper frame, an action in its wrapper and one
\* replay, and the interpreter's recursion limit is never what ends it.
C16_BoundedNonRecursive ==
    /\ call.fn = "find_element" => Len(stack) <= 1
    /\ call.fn = "action" => Len(stack) <= 2
    /\ ret.exc.cls # RecursionError

\* C17: when the driver call succeeds at the first attempt, the wrapper
\* returns the driver's value, records the success and does no healing work:
\* no heal, no page snapshot, no second driver call.
C17_FirstAttemptSuccess ==
    /\ (LookupDone /\ finds[1].ok)
          => /\ ret = Returned(Val(finds[1].h, "", <<>>))
             /\ events = <<Ev("find_attempt", "find_element"),
                           Ev("find_success", "find_element")>>
             /\ heals = <<>> /\ page_reads = 0 /\ reresolves = 0
             /\ Len(finds) = 1 /\ acts = <<>>
    /\ (ManyDone /\ finds[1].ok)
          => /\ ret.kind = "value"
             /\ events = <<Ev("find_attempt", "find_elements"),
                           Ev("find_success", "find_elements")>>
             /\ heals = <<>> /\ page_reads = 0 /\ reresolves = 0
             /\ Len(finds) = 1 /\ acts = <<>>
    /\ (ActionDone /\ acts[1].ok)
          => /\ ret = Returned(Val(NoHandle, acts[1].res, <<>>))
             /\ events = <<Ev("action_attempt", call.method),
                           Ev("action_success", call.method)>>
             /\ heals = <<>> /\ page_reads = 0 /\ reresolves = 0
             /\ finds = <<>> /\ Len(acts) = 1

\* C17 witness: with healing on, a lookup and an action on a registered
\* handle succeeded at once.
C17_Witness ==
    \/ /\ LookupDone /\ auto_heal /\ finds[1].ok
       /\ ret.val.h = 2
    \/ /\ ActionDone /\ auto_heal /\ call.info # NoLoc /\ acts[1].ok
       /\ ret.val.res = "r2"

\* C18: the recorder is not needed for correctness: whether or not its
\* notifications fail, the caller gets what the driver and the healer
\* decide; a failing notification neither keeps the driver call from being
\* made nor turns a successful driver call or a successful healing into a
\* failure.
C18_RecorderNotNeeded ==
    (Done /\ call.fn \in {"find_element", "action"})
        => /\ ret.exc.cls # RecorderError
           /\ call.fn = "find_element"
                 => /\ finds # <<>>
                    /\ finds[Len(finds)].ok => ret.kind = "value"
           /\ call.fn = "action"
                 => /\ acts # <<>>
                    /\ acts[Len(acts)].ok => ret.kind = "value"

\* Claim-side helpers for the captures.
Captured == instance.kind # "none"
FailedReads ==
    {r \in ReadsMade(data_module, include_attributes, custom_attributes) :
        element[r] = "raises"}
ScalarFields == {"tag", "element_id", "text", "href", "src", "name", "value"}
FieldOf(r) ==
    CASE r = "class" -> "classes"
      [] r = "xpath" -> "xpath"
      [] r = "tag_name" -> "tag"
      [] r = "id" -> "element_id"
      [] r \in {"custom", "all_attrs"} -> "attributes"
      [] OTHER -> r
EmptyOf(f) ==
    IF f = "classes" THEN List(<<>>)
    ELSE IF f = "attributes" THEN Dict(<<>>) ELSE Str(<<>>)

\* C19: capture is total: whatever subset of the reads on the handle fails,
\* from_selenium_element returns a snapshot and never raises, and every
\* field whose read failed holds its empty value.
C19_CaptureTotal ==
    Captured
        => /\ instance.kind = "instance"
           /\ \A r \in FailedReads :
                 instance.data[FieldOf(r)] = EmptyOf(FieldOf(r))

\* C20: every field of a captured snapshot is non-null: an attribute the
\* driver reports as absent (None) is stored as the empty string or the
\* empty list, and attributes is always a map.
C20_FieldsNonNull ==
    (Captured /\ instance.kind = "instance")
        => /\ \A f \in ScalarFields : instance.data[f].t = "str"
           /\ data_module = "Property" => instance.data.xpath.t = "str"
           /\ instance.data.classes.t = "list"
           /\ instance.data.attributes.t = "dict"

\* C21: the absolute-path computation never raises: when the script
\* raises, or gives None or the empty string, _get_absolute_xpath returns
\* the empty string, so a capture never fails at the xpath and its xpath
\* field is then empty.
C21_XPathBestEffort ==
    (Captured /\ data_module = "Property")
        => /\ instance.kind = "raised" => instance.at # "xpath"
           /\ (instance.kind = "instance" /\ element["xpath"] # "str")
                 => instance.data.xpath = Str(<<>>)
           /\ (instance.kind = "instance" /\ element["xpath"] = "str")
                 => instance.data.xpath = Sample("xpath")

C21_Witness ==
    /\ Captured /\ data_module = "Property" /\ instance.kind = "instance"
    /\ element["xpath"] = "raises"
    /\ instance.data.xpath = Str(<<>>)

\* Claim-side helpers for SecurePickle.
Verified ==
    Slice(wire.bytes, 1, digest_size(algorithm))
        = hmac_digest(secret_key,
                      Slice(wire.bytes, digest_size(algorithm) + 1, Len(wire.bytes)),
                      algorithm)
Rejected == loaded.kind = "raised" /\ loaded.cls = SecurityError /\ loaded.unpickled = <<>>

\* C22: loads unpickles the payload only if the leading signature is the
\* HMAC of the remaining bytes under the instance's key; a modified
\* payload, a modified signature, data signed with another key and data
\* shorter than a signature all raise SecurityError with nothing unpickled.
C22_LoadsVerifiesFirst ==
    (wire.kind = "bytes" /\ loaded.kind # "none")
        => /\ loaded.unpickled # <<>> => Verified
           /\ ~Verified => Rejected
           /\ (wire.tampered \/ sent.key # secret_key) => Rejected
           /\ Len(wire.bytes) < digest_size(algorithm) => Rejected

C22_Witness ==
    /\ wire.kind = "bytes" /\ Rejected
    /\ wire.tampered /\ Len(wire.bytes) > digest_size(algorithm)
    /\ Slice(wire.bytes, 1, digest_size(algorithm))
          = hmac_digest(sent.key, pickle_dumps(sent.obj), algorithm)

C24_OverwriteFlagHonoured ==
    env_calls.last = "update_env"
        => \A i \in DOMAIN parser :
              LET n == env_name(parser[i].key)
              IN  n \in DOMAIN env_before.last
                     => IF overwrite_env THEN environ[n] = parser[i].value
                        ELSE environ[n] = env_before.last[n]

\* C25: after one or more update_env calls and a cleanup_env the
\* environment is what it was before the handler first injected anything,
\* both bookkeeping collections are empty, and cleaning up again changes
\* nothing.
C25_CleanupRestores ==
    env_calls.last = "cleanup_env"
        => /\ environ = env_before.first
           /\ injected_env_var = {}
           /\ original_env_var = EmptyDict
           /\ env_calls.cleanups = 2 => environ = env_before.last

\* Claim-side helper: with auto_heal off nothing of a recovery happens and
\* a failing lookup or action hands the caller the driver's exception.
NoRecoveryWork ==
    /\ heals = <<>> /\ page_reads = 0 /\ reresolves = 0
    /\ Len(finds) <= 1 /\ Len(acts) <= 1 /\ Len(stack) <= 1
    /\ ~Notified("healing_attempt")
    /\ (LookupDone /\ ~finds[1].ok) => ret = Raised(Exc(finds[1].cls, 1))
    /\ (ActionDone /\ ~acts[1].ok) => ret = Raised(Exc(acts[1].cls, 1))

\* C26: with auto_heal false a failing single-element lookup or stale
\* action never calls heal, never reads the page snapshot, never
\* re-resolves or replays and re-raises the original exception; a failing
\* multi-element lookup still returns the empty list and records no healing
\* attempt.
C26_AutoHealOff ==
    ~auto_heal
        => /\ NoRecoveryWork
           /\ (ManyDone /\ ~finds[1].ok) => ret = Returned(NoVal)

\* C26 as the code has it: the same, with the empty list only for a
\* multi-element lookup that failed with not-found or stale-reference; any
\* other driver error of the multi-element lookup is raised.
C26_AutoHealOffCaughtOnly ==
    ~auto_heal
        => /\ NoRecoveryWork
           /\ (ManyDone /\ ~finds[1].ok)
                 => IF finds[1].cls \in Healables THEN ret = Returned(NoVal)
                    ELSE ret = Raised(Exc(finds[1].cls, 1))

C26_Witness ==
    /\ ~auto_heal /\ ActionDone /\ call.info # NoLoc
    /\ acts[1].cls = StaleElementReferenceException
    /\ ret = Raised(Exc(StaleElementReferenceException, 1))

\* C27: after any sequence of patch_driver calls by one interceptor, a
\* lookup on a patched driver executes the original lookup of that same
\* driver exactly once as its first attempt, never another driver's and
\* never the wrapper itself.
C27_OwnOriginalOnce ==
    (pcall.fn = "find_element" /\ pcall.pc = "done")
        => /\ plog.executed = <<pcall.driver>>
           /\ plog.attempts = 1
           /\ plog.result # RecursionError

\* C28: action interception does not nest: after any number of
\* patch_driver calls one click records exactly one action attempt and runs
\* at most one recovery attempt, as after a single patch_driver call.
C28_ActionWrappedOnce ==
    (pcall.fn = "click" /\ pcall.pc = "done")
        => /\ plog.attempts = 1
           /\ plog.recoveries <= 1

\* Claim-side helpers for the loggers.
BuiltFor(key) == {i \in DOMAIN built : built[i].by = "get_default_logger" /\ built[i].key = key}
BuiltNamed(name) == {i \in DOMAIN built : built[i].log_name = name}
Returned2(t) == threads[t].pc = "done"

\* C29: under any interleaving of concurrent get_default_logger calls with
\* equal keyword arguments at most one BuildLogger is constructed for the
\* key, the table never replaces the instance stored under a key, and all
\* callers get the same logger object.
C29_OneInstancePerKey ==
    /\ \A k \in KwargSets : Cardinality(BuiltFor(instance_key(k))) <= 1
    /\ \A k \in DOMAIN instances :
          /\ BuiltFor(k) = {instances[k].id}
    /\ \A t, u \in Threads :
          (Returned2(t) /\ Returned2(u) /\ threads[t].kwargs = threads[u].kwargs)
              => /\ threads[t].logger = threads[u].logger
                 /\ threads[t].made = threads[u].made

C29_Witness ==
    /\ \A t \in Threads : Returned2(t)
    /\ threads[1].kwargs = threads[2].kwargs
    /\ threads[1].logger = threads[2].logger
    /\ built # <<>>

\* C30: handlers are never added twice: however often BuildLogger is
\* constructed with one log_name, the handlers of that logger stay what
\* they were after the first construction.
C30_HandlersAddedOnce ==
    \A i \in DOMAIN built :
       LET first == CHOOSE j \in BuiltNamed(built[i].log_name) :
                        \A l \in BuiltNamed(built[i].log_name) : j <= l
       IN  /\ i # first => built[i].before = init_logger_handlers(<<>>, built[first].key)
           /\ handlers[built[i].log_name] = init_logger_handlers(<<>>, built[first].key)

C30_Witness ==
    \E i, j \in DOMAIN built :
       /\ i < j /\ built[i].log_name = built[j].log_name
       /\ built[i].key # built[j].key
       /\ handlers[built[i].log_name] = <<"RotatingFileHandler", "StreamHandler">>

====
